---- MODULE Spec2Model ----
(***************************************************************************)
(* State-machine model of the GitHub provider of issues-watcher            *)
(* (src/src/providers/github.rs): client construction, project id          *)
(* resolution, paginated fetches and snapshot building.  One step of an    *)
(* operation in flight is one request/response round trip together with    *)
(* all the code that runs up to the next await point.                       *)
(***************************************************************************)
EXTENDS Integers, Sequences, FiniteSets, TLC

\* const PER_PAGE: usize = 100
PER_PAGE == 100

\* Bounds of the model: public calls per client, ticks of the logical clock.
MaxCalls == 3
MaxClock == 2

\* No fetch of the model needs more pages than this; a loop that reaches it
\* stops requesting and never returns.
MaxPage == 4

\* Option<T>: None is the empty tuple, Some(x) the one-element tuple.
None == <<>>
Some(x) == <<x>>

Min(a, b) == IF a < b THEN a ELSE b

----------------------------------------------------------------------------
(* Strings are tuples of one-character strings, so that split("/") is      *)
(* computed and not assumed.                                               *)

RECURSIVE Split(_)
Split(s) ==
    IF \E k \in 1..Len(s) : s[k] = "/"
    THEN LET k == CHOOSE k \in 1..Len(s) :
                      s[k] = "/" /\ \A j \in 1..(k - 1) : s[j] # "/"
         IN  <<SubSeq(s, 1, k - 1)>> \o Split(SubSeq(s, k + 1, Len(s)))
    ELSE <<s>>

\* impl From<String> for Repo: parsed[0], parsed[1]; indexing panics when the
\* split has fewer than two parts.
RepoFromPanics(r) == Len(Split(r)) < 2

RepoFrom(r) ==
    LET parsed == Split(r)
    IN  [owner |-> parsed[1], repo |-> parsed[2]]

\* impl From<String> for Project.  A raw project string is kept as the parts
\* the regular expression looks at: the literal prefix, the two [\w-]+
\* groups, the literal "projects" section and the \d+ group (None when the
\* text there is not a number).
UrlMatches(r) ==
    /\ r.prefix = "https://github.com"
    /\ r.owner # <<>>
    /\ r.repo # <<>>
    /\ "/" \notin {r.owner[k] : k \in 1..Len(r.owner)}
    /\ "/" \notin {r.repo[k] : k \in 1..Len(r.repo)}
    /\ r.section = "projects"
    /\ r.number # None

ProjectFrom(r) ==
    IF UrlMatches(r)
    THEN [owner |-> r.owner, repo |-> r.repo, number |-> r.number[1], id |-> None]
    ELSE [owner |-> <<>>, repo |-> <<>>, number |-> 0, id |-> None]

MapRepos(raws) == [k \in 1..Len(raws) |-> RepoFrom(raws[k])]

MapProjects(raws) == [k \in 1..Len(raws) |-> ProjectFrom(raws[k])]

\* repos.contains(&Repo { owner: p.owner, repo: p.repo })
ReposContain(rs, p) ==
    \E k \in 1..Len(rs) : rs[k] = [owner |-> p.owner, repo |-> p.repo]

\* .filter(|p| !repos.contains(..)).collect(): order preserving.
FilterProjectsNoFilter(ps, rs) == ps

RECURSIVE FilterProjects(_, _)
FilterProjects(ps, rs) ==
    IF ps = <<>> THEN <<>>
    ELSE IF ReposContain(rs, Head(ps))
         THEN FilterProjects(Tail(ps), rs)
         ELSE <<Head(ps)>> \o FilterProjects(Tail(ps), rs)

----------------------------------------------------------------------------
(* The upstream REST API, as the client sees it.                            *)

NameA == <<"a">>
NameB == <<"b">>
NameC == <<"c">>
NameD == <<"d">>
NameX == <<"x">>
NameY == <<"y">>
NameZ == <<"z">>
NameW == <<"w">>

KeyAX == <<NameA, NameX>>
KeyBY == <<NameB, NameY>>
KeyCZ == <<NameC, NameZ>>
KeyDW == <<NameD, NameW>>

KnownRepos == {KeyAX, KeyBY, KeyCZ, KeyDW}


\* What the platform holds: issues and boards per repository, columns per
\* board, cards per column.  `up` (chosen by Init) gives the sizes.
RepoNo(key) ==
    IF key = KeyAX THEN 1 ELSE IF key = KeyBY THEN 2 ELSE IF key = KeyCZ THEN 3 ELSE 4

\* JSON issue objects of a repository, in list order.
IssuesOf(u, key) ==
    [k \in 1..u.issues[key] |-> [number |-> k, pull_request |-> (k % 2 = 0)]]

\* JSON board objects {id, number} of a repository: numbers 1, 2, ...; ids
\* are unique across the platform.
BoardsOf(u, key) ==
    [k \in 1..u.boards[key] |-> [id |-> RepoNo(key) * 1000 + k, number |-> k]]

AllBoardIds(u) ==
    UNION {{BoardsOf(u, key)[k].id : k \in 1..u.boards[key]} : key \in KnownRepos}

\* JSON column objects of a board.
ColumnsOf(u, pid) == [k \in 1..u.ncols |-> [id |-> pid * 1000 + k]]

\* JSON card objects of a column: the columns whose id ends in 1 (the
\* first, the eleventh, ..) hold u.cards cards, the others none.
\* struct Card {} has no fields.
Card == "Card"

CardsOf(u, cid) == [k \in 1..(IF cid % 10 = 1 THEN u.cards ELSE 0) |-> Card]

\* ?page={}&per_page={}: the page-th slice of PER_PAGE items of a list.
PageOf(coll, page) ==
    SubSeq(coll, (page - 1) * PER_PAGE + 1, Min(page * PER_PAGE, Len(coll)))

\* The list a request addresses; a request for something the platform does
\* not have is answered with an error object, which does not decode as a
\* list.
Addressed(u, kind, key) ==
    IF kind = "issues" THEN key \in KnownRepos
    ELSE IF kind = "boards" THEN key \in KnownRepos
    ELSE IF kind = "columns" THEN key # None /\ key[1] \in AllBoardIds(u)
    ELSE TRUE

\* Outcomes of one request: it may always fail (transport, decoding); it
\* can succeed only when it addresses a list.
Outcomes(u, kind, key) == IF Addressed(u, kind, key) THEN {TRUE, FALSE} ELSE {FALSE}

----------------------------------------------------------------------------
(* Configurations and platforms the model is run on.                        *)

RawAX == <<"a", "/", "x">>
RawBY == <<"b", "/", "y">>
RawNoSlash == <<"a", "x">>

Url(owner, repo, n) ==
    [prefix |-> "https://github.com", owner |-> owner, repo |-> repo,
     section |-> "projects", number |-> Some(n)]

UrlOther == [prefix |-> "https://example.com", owner |-> NameC, repo |-> NameZ,
             section |-> "projects", number |-> Some(1)]

Configs ==
    { [repos |-> <<>>, projects |-> <<>>],
      [repos |-> <<RawNoSlash>>, projects |-> <<>>],
      [repos |-> <<RawAX>>, projects |-> <<Url(NameA, NameX, 1), Url(NameC, NameZ, 1)>>],
      [repos |-> <<RawAX, RawBY>>, projects |-> <<Url(NameC, NameZ, 101)>>],
      [repos |-> <<RawBY>>, projects |-> <<Url(NameC, NameZ, 1), Url(NameD, NameW, 1)>>],
      [repos |-> <<>>, projects |-> <<Url(NameC, NameZ, 1), Url(NameC, NameZ, 1)>>],
      [repos |-> <<>>, projects |-> <<Url(NameD, NameW, 1), Url(NameC, NameZ, 150)>>],
      [repos |-> <<>>, projects |-> <<Url(NameC, NameZ, 101), Url(NameC, NameZ, 1)>>],
      [repos |-> <<RawBY>>, projects |-> <<UrlOther>>] }

Platform(nAX, nBY, bCZ, nc, cards) ==
    [issues |-> (KeyAX :> nAX @@ KeyBY :> nBY @@ KeyCZ :> 0 @@ KeyDW :> 0),
     boards |-> (KeyAX :> 1 @@ KeyBY :> 0 @@ KeyCZ :> bCZ @@ KeyDW :> 1),
     ncols  |-> nc,
     cards  |-> cards]

Platforms ==
    { Platform(237, 0, 101, 2, 100),
      Platform(100, 37, 100, 1, 237),
      Platform(37, 200, 0, 0, 0),
      Platform(0, 100, 1, 2, 37) }

\* A board of exactly PER_PAGE columns.
WideConfig == [repos |-> <<>>, projects |-> <<Url(NameD, NameW, 1)>>]

WidePlatform == Platform(0, 0, 1, PER_PAGE, 1)

Worlds ==
    {[conf |-> c, up |-> u] : c \in Configs, u \in Platforms}
        \cup {[conf |-> WideConfig, up |-> WidePlatform]}

----------------------------------------------------------------------------
VARIABLES
    conf,       \* the configuration handed to GitHub::new
    up,         \* the platform's content
    clock,      \* logical clock (what Utc::now() reads)
    pc,         \* "start", "panic", "idle", or the await point of the call in flight
    repos,      \* GitHub.repos
    projects,   \* GitHub.projects
    time,       \* GitHub.time
    calls,      \* public calls made so far
    frame,      \* locals of the call in flight
    reqs,       \* requests issued by the current (or last) call, in order
    pre,        \* projects and clock at the start of the current (or last) call,
                \* the result of the call before it and, when that call
                \* succeeded, its requests
    result      \* what the last call returned

vars == <<conf, up, clock, pc, repos, projects, time, calls, frame, reqs, pre, result>>

EmptyFrame ==
    [i |-> 0, j |-> 0, page |-> 0, all |-> <<>>, number2id |-> <<>>,
     repo_issues |-> <<>>, project_issues |-> <<>>, columns |-> <<>>]

NoResult == [op |-> "none", ok |-> TRUE, err |-> "", value |-> None]

Init ==
    /\ \E w \in Worlds : conf = w.conf /\ up = w.up
    /\ clock = 0
    /\ pc = "start"
    /\ repos = <<>>
    /\ projects = <<>>
    /\ time = 0
    /\ calls = 0
    /\ frame = EmptyFrame
    /\ reqs = <<>>
    /\ pre = [projects |-> <<>>, clock |-> 0, last |-> NoResult, lastReqs |-> <<>>]
    /\ result = NoResult


----------------------------------------------------------------------------
(* Helpers of the operations.                                               *)

Ok(op, v) == [op |-> op, ok |-> TRUE, err |-> "", value |-> v]
Err(op, e) == [op |-> op, ok |-> FALSE, err |-> e, value |-> None]

\* One entry of the request log: the list addressed, the page asked for
\* (0: the URL has no page parameter), whether it came back decoded, and
\* which repository/project (i) and column (j) the client was working on.
Req(kind, key, page, ok, i, j) ==
    [kind |-> kind, key |-> key, page |-> page, ok |-> ok, at |-> <<i, j>>]

\* `?` on the request and on serde_json::from_str: an Err returns from the
\* enclosing function at once.
PropagatesNever(ok) == FALSE

Propagates(ok) == ~ok

\* The decoded batch: Vec<T> on success.  (Not reached on failure, since
\* the error has propagated.)
Decoded(ok, page) == IF ok THEN page ELSE <<>>

\* serde: Issue.owner and Issue.repo are skip_deserializing (default "").
DecodeIssue(raw) ==
    [number |-> raw.number, owner |-> <<>>, repo |-> <<>>,
     pull_request |-> raw.pull_request]

DecodeIssues(batch) == [k \in 1..Len(batch) |-> DecodeIssue(batch[k])]

\* serde: Column.cards is skip_deserializing (default empty).
DecodeColumns(batch) == [k \in 1..Len(batch) |-> [id |-> batch[k].id, cards |-> <<>>]]

\* while all.len() == page * PER_PAGE   (get_opened_issues_by_repo)
IssuesLoopCondUntilEmpty(all, page) == page = 0 \/ Len(all) > (page - 1) * PER_PAGE

IssuesLoopCond(all, page) == Len(all) = page * PER_PAGE

\* while all.len() == page * PER_PAGE   (get_cards)
CardsLoopCondFirstPageOnly(all, page) == FALSE

CardsLoopCond(all, page) == Len(all) = page * PER_PAGE

\* all.extend(batch)
ExtendInFront(all, batch) == batch \o all

Extend(all, batch) == all \o batch

\* .map(|mut issue| { issue.owner = repo.owner; issue.repo = repo.repo; issue })
BackFillIssuesOnly(all, repo) ==
    LET IsIssue(x) == ~x.pull_request
        kept == SelectSeq(all, IsIssue)
    IN  [k \in 1..Len(kept) |-> [kept[k] EXCEPT !.owner = repo.owner, !.repo = repo.repo]]

BackFill(all, repo) ==
    [k \in 1..Len(all) |-> [all[k] EXCEPT !.owner = repo.owner, !.repo = repo.repo]]

\* if let Some(project_id) = project.id   (get_columns)
HasIdAlways(project) == TRUE

HasIdNever(project) == FALSE

HasId(project) == project.id # None

\* if let None = project.id   (get_projects_id, both loops)
IdIsNoneAlways(project) == TRUE

IdIsNone(project) == project.id = None

\* for project in &self.projects { if let None = project.id {..} }: the
\* first unresolved project at or after index k, 0 when there is none.
NextUnresolvedSkipRepeated(ps, k) ==
    LET Fresh(n) == IdIsNone(ps[n]) /\ \A m \in 1..(n - 1) : ps[m] # ps[n]
    IN  IF \E n \in k..Len(ps) : Fresh(n)
        THEN CHOOSE n \in k..Len(ps) : Fresh(n) /\ \A m \in k..(n - 1) : ~Fresh(m)
        ELSE 0

NextUnresolved(ps, k) ==
    IF \E n \in k..Len(ps) : IdIsNone(ps[n])
    THEN CHOOSE n \in k..Len(ps) :
             IdIsNone(ps[n]) /\ \A m \in k..(n - 1) : ~IdIsNone(ps[m])
    ELSE 0

\* for p in &ps { if p.number == project.number {..; break 'outer} }: the
\* index of the first board of the page with the number, 0 when none.
FirstMatchOnFullPageOnly(ps, number) ==
    IF Len(ps) = PER_PAGE /\ \E n \in 1..Len(ps) : ps[n].number = number
    THEN CHOOSE n \in 1..Len(ps) :
             ps[n].number = number /\ \A m \in 1..(n - 1) : ps[m].number # number
    ELSE 0

FirstMatch(ps, number) ==
    IF \E n \in 1..Len(ps) : ps[n].number = number
    THEN CHOOSE n \in 1..Len(ps) :
             ps[n].number = number /\ \A m \in 1..(n - 1) : ps[m].number # number
    ELSE 0

\* number2id.insert(p.number, p.id)
Insert(m, number, id) == (number :> id) @@ m

\* if ps.len() < PER_PAGE { return Err("project not found") }
ScanExhaustedOnFull(ps) == Len(ps) <= PER_PAGE

ScanExhaustedNever(ps) == FALSE

ScanExhausted(ps) == Len(ps) < PER_PAGE

\* The second loop of get_projects_id, from index k on: every unresolved
\* project takes its id from number2id; a missing number returns Err with
\* the projects assigned so far.
RECURSIVE AssignFrom(_, _, _)
AssignFrom(ps, m, k) ==
    IF k > Len(ps) THEN [ok |-> TRUE, projects |-> ps]
    ELSE IF ~IdIsNone(ps[k]) THEN AssignFrom(ps, m, k + 1)
    ELSE IF ps[k].number \in DOMAIN m
         THEN AssignFrom([ps EXCEPT ![k].id = Some(m[ps[k].number])], m, k + 1)
         ELSE [ok |-> FALSE, projects |-> ps]

AssignIdsSkipFirst(ps, m) == AssignFrom(ps, m, 2)

AssignIdsEmptyMapFails(ps, m) ==
    IF DOMAIN m = {} THEN [ok |-> FALSE, projects |-> ps] ELSE AssignFrom(ps, m, 1)

AssignIds(ps, m) == AssignFrom(ps, m, 1)

\* Snapshot { time: &self.time, repo_issues, project_issues }
MakeSnapshot(t, ri, pi) ==
    [time |-> t, repo_issues |-> ri, project_issues |-> pi]


----------------------------------------------------------------------------
(* The operations.                                                          *)

\* GitHub::new.  Utc::now() reads the clock.
New ==
    /\ pc = "start"
    /\ IF \E k \in 1..Len(conf.repos) : RepoFromPanics(conf.repos[k])
       THEN /\ pc' = "panic"
            /\ UNCHANGED <<repos, projects, time>>
       ELSE /\ pc' = "idle"
            /\ repos' = MapRepos(conf.repos)
            /\ projects' = FilterProjects(MapProjects(conf.projects), MapRepos(conf.repos))
            /\ time' = clock
    /\ UNCHANGED <<conf, up, clock, calls, frame, reqs, pre, result>>

\* Time passes between calls.
Tick ==
    /\ pc \in {"start", "idle"}
    /\ clock < MaxClock
    /\ clock' = clock + 1
    /\ UNCHANGED <<conf, up, pc, repos, projects, time, calls, frame, reqs, pre, result>>

\* A call returns.
Finish(r) ==
    /\ pc' = "idle"
    /\ frame' = EmptyFrame
    /\ result' = r

\* get_projects_id after its first loop: the second loop and the return.
FinishIds(m) ==
    LET r == AssignIds(projects, m)
    IN  /\ projects' = r.projects
        /\ Finish(IF r.ok THEN Ok("get_projects_id", None)
                  ELSE Err("get_projects_id", "project not found"))

\* get_projects_id is called; it runs to its first request.
CallGetProjectsId ==
    /\ pc = "idle"
    /\ calls < MaxCalls
    /\ calls' = calls + 1
    /\ reqs' = <<>>
    /\ pre' = [projects |-> projects, clock |-> clock, last |-> result,
              lastReqs |-> IF result.ok THEN reqs ELSE <<>>]
    /\ LET i == NextUnresolved(projects, 1)
       IN  IF i = 0
           THEN FinishIds(<<>>)
           ELSE /\ pc' = "boards"
                /\ frame' = [EmptyFrame EXCEPT !.i = i]
                /\ UNCHANGED <<projects, result>>
    /\ UNCHANGED <<conf, up, clock, repos, time>>

\* get_projects_id: one iteration of 'outer, for the project at frame.i.
BoardsPage ==
    /\ pc = "boards"
    /\ frame.page < MaxPage
    /\ LET project == projects[frame.i]
           key == <<project.owner, project.repo>>
           page == frame.page + 1
       IN  \E ok \in Outcomes(up, "boards", key) :
             /\ reqs' = Append(reqs, Req("boards", key, page, ok, frame.i, 0))
             /\ IF Propagates(ok)
                THEN /\ Finish(Err("get_projects_id", "request failed"))
                     /\ UNCHANGED projects
                ELSE LET ps == Decoded(ok, PageOf(BoardsOf(up, key), page))
                         hit == FirstMatch(ps, project.number)
                     IN  IF hit # 0
                         THEN LET m == Insert(frame.number2id, ps[hit].number, ps[hit].id)
                                  nxt == NextUnresolved(projects, frame.i + 1)
                              IN  IF nxt = 0
                                  THEN FinishIds(m)
                                  ELSE /\ frame' = [frame EXCEPT !.i = nxt, !.page = 0,
                                                                 !.number2id = m]
                                       /\ UNCHANGED <<pc, projects, result>>
                         ELSE IF ScanExhausted(ps)
                              THEN /\ Finish(Err("get_projects_id", "project not found"))
                                   /\ UNCHANGED projects
                              ELSE /\ frame' = [frame EXCEPT !.page = page]
                                   /\ UNCHANGED <<pc, projects, result>>
    /\ UNCHANGED <<conf, up, clock, repos, time, calls, pre>>

\* get_projects_snapshot from project k on, up to the next request:
\* get_project -> get_columns checks the id before it requests anything.
EnterProjects(k, ri, pi) ==
    IF k > Len(projects)
    THEN Finish(Ok("get_snapshot", Some(MakeSnapshot(time, ri, pi))))
    ELSE IF ~HasId(projects[k])
         THEN Finish(Err("get_snapshot", "project id is none"))
         ELSE /\ pc' = "columns"
              /\ frame' = [EmptyFrame EXCEPT !.i = k, !.repo_issues = ri,
                                             !.project_issues = pi]
              /\ UNCHANGED result

\* get_opened_issues from repository k on, up to the next request: the
\* while condition holds on entry (0 == 0 * PER_PAGE), so every repository
\* starts with a request.
EnterReposSkipsLast(k, ri) ==
    IF k >= Len(repos)
    THEN EnterProjects(1, ri, <<>>)
    ELSE /\ pc' = "issues"
         /\ frame' = [EmptyFrame EXCEPT !.i = k, !.repo_issues = ri]
         /\ UNCHANGED result

EnterRepos(k, ri) ==
    IF k > Len(repos)
    THEN EnterProjects(1, ri, <<>>)
    ELSE /\ pc' = "issues"
         /\ frame' = [EmptyFrame EXCEPT !.i = k, !.repo_issues = ri]
         /\ UNCHANGED result

\* get_snapshot is called; it runs to its first request.
CallGetSnapshotKeepsIssues ==
    /\ pc = "idle"
    /\ calls < MaxCalls
    /\ calls' = calls + 1
    /\ reqs' = <<>>
    /\ pre' = [projects |-> projects, clock |-> clock, last |-> result,
              lastReqs |-> IF result.ok THEN reqs ELSE <<>>]
    /\ EnterRepos(1, IF result.op = "get_snapshot" /\ result.ok
                     THEN result.value[1].repo_issues ELSE <<>>)
    /\ UNCHANGED <<conf, up, clock, repos, projects, time>>

CallGetSnapshot ==
    /\ pc = "idle"
    /\ calls < MaxCalls
    /\ calls' = calls + 1
    /\ reqs' = <<>>
    /\ pre' = [projects |-> projects, clock |-> clock, last |-> result,
              lastReqs |-> IF result.ok THEN reqs ELSE <<>>]
    /\ EnterRepos(1, <<>>)
    /\ UNCHANGED <<conf, up, clock, repos, projects, time>>

\* get_opened_issues_by_repo: one iteration of the while loop for the
\* repository at frame.i, and what follows when the loop ends.
IssuesPage ==
    /\ pc = "issues"
    /\ frame.page < MaxPage
    /\ LET repo == repos[frame.i]
           key == <<repo.owner, repo.repo>>
           page == frame.page + 1
       IN  \E ok \in Outcomes(up, "issues", key) :
             /\ reqs' = Append(reqs, Req("issues", key, page, ok, frame.i, 0))
             /\ IF Propagates(ok)
                THEN Finish(Err("get_snapshot", "request failed"))
                ELSE LET batch == DecodeIssues(Decoded(ok, PageOf(IssuesOf(up, key), page)))
                         all == Extend(frame.all, batch)
                     IN  IF IssuesLoopCond(all, page)
                         THEN /\ frame' = [frame EXCEPT !.page = page, !.all = all]
                              /\ UNCHANGED <<pc, result>>
                         ELSE EnterRepos(frame.i + 1,
                                  Append(frame.repo_issues,
                                         [repo |-> repo, issues |-> BackFill(all, repo)]))
    /\ UNCHANGED <<conf, up, clock, repos, projects, time, calls, pre>>

\* get_columns past the id check: the one column request of the project
\* at frame.i.
ColumnsReq ==
    /\ pc = "columns"
    /\ LET project == projects[frame.i]
           key == project.id
       IN  \E ok \in Outcomes(up, "columns", key) :
             /\ reqs' = Append(reqs, Req("columns", key, 0, ok, frame.i, 0))
             /\ IF Propagates(ok)
                THEN Finish(Err("get_snapshot", "request failed"))
                ELSE LET columns == DecodeColumns(
                                        Decoded(ok, PageOf(ColumnsOf(up, key[1]), 1)))
                     IN  IF columns = <<>>
                         THEN EnterProjects(frame.i + 1, frame.repo_issues,
                                  Append(frame.project_issues,
                                         [project |-> project, columns |-> columns]))
                         ELSE /\ pc' = "cards"
                              /\ frame' = [frame EXCEPT !.j = 1, !.page = 0, !.all = <<>>,
                                                        !.columns = columns]
                              /\ UNCHANGED result
    /\ UNCHANGED <<conf, up, clock, repos, projects, time, calls, pre>>

\* get_cards: one iteration of the while loop for column frame.j of the
\* project at frame.i, and what follows when the loop ends.
CardsPage ==
    /\ pc = "cards"
    /\ frame.page < MaxPage
    /\ LET column == frame.columns[frame.j]
           page == frame.page + 1
       IN  \E ok \in Outcomes(up, "cards", column.id) :
             /\ reqs' = Append(reqs, Req("cards", column.id, page, ok, frame.i, frame.j))
             /\ IF Propagates(ok)
                THEN Finish(Err("get_snapshot", "request failed"))
                ELSE LET batch == Decoded(ok, PageOf(CardsOf(up, column.id), page))
                         all == Extend(frame.all, batch)
                     IN  IF CardsLoopCond(all, page)
                         THEN /\ frame' = [frame EXCEPT !.page = page, !.all = all]
                              /\ UNCHANGED <<pc, result>>
                         ELSE LET columns == [frame.columns EXCEPT ![frame.j].cards = all]
                              IN  IF frame.j < Len(columns)
                                  THEN /\ frame' = [frame EXCEPT !.j = frame.j + 1,
                                                       !.page = 0, !.all = <<>>,
                                                       !.columns = columns]
                                       /\ UNCHANGED <<pc, result>>
                                  ELSE EnterProjects(frame.i + 1, frame.repo_issues,
                                           Append(frame.project_issues,
                                                  [project |-> projects[frame.i],
                                                   columns |-> columns]))
    /\ UNCHANGED <<conf, up, clock, repos, projects, time, calls, pre>>

Next ==
    \/ New
    \/ Tick
    \/ CallGetProjectsId
    \/ BoardsPage
    \/ CallGetSnapshot
    \/ IssuesPage
    \/ ColumnsReq
    \/ CardsPage

Spec == Init /\ [][Next]_vars

\* Every request that is awaited returns (with a body or with an error):
\* the step that follows a request in flight is eventually taken.  Nothing
\* obliges the caller to make another call.
LiveSpec ==
    /\ Spec
    /\ WF_vars(BoardsPage)
    /\ WF_vars(IssuesPage)
    /\ WF_vars(ColumnsReq)
    /\ WF_vars(CardsPage)


----------------------------------------------------------------------------
(* Vocabulary of the properties.                                            *)

\* The last call was `op` and has returned.
Done(op) == pc = "idle" /\ result.op = op

\* The requests of the current call for list `kind`, made while working on
\* repository/project i and column j.
ReqsAt(kind, i, j) ==
    LET Test(r) == r.kind = kind /\ r.at = <<i, j>>
    IN  SelectSeq(reqs, Test)

AllReqsOk == \A k \in 1..Len(reqs) : reqs[k].ok

RepoKey(r) == <<r.owner, r.repo>>

\* rs asks for pages 1, 2, .., Len(rs) of coll, every page but the last is
\* full and the last is shorter than PER_PAGE.
StopsAtFirstShortPage(rs, coll) ==
    /\ rs # <<>>
    /\ \A k \in 1..Len(rs) : rs[k].page = k
    /\ \A k \in 1..(Len(rs) - 1) : Len(PageOf(coll, k)) = PER_PAGE
    /\ Len(PageOf(coll, Len(rs))) < PER_PAGE

StripIds(ps) == [k \in 1..Len(ps) |-> [ps[k] EXCEPT !.id = None]]

----------------------------------------------------------------------------
\* C1: a paginated fetch (issues of a repository, cards of a column) asks
\* for pages 1, 2, 3, ... and stops after the first page shorter than 100:
\* in every snapshot that was built, each repository's issue list and each
\* column's card list was fetched with exactly (length div 100) + 1
\* requests, the last one the first short page, and holds every item (237
\* items: 3 requests; fewer than 100: 1 request; 100*k: k+1 requests).
C1_PaginationStops ==
    (Done("get_snapshot") /\ result.ok) =>
        LET snap == result.value[1]
        IN  /\ \A r \in 1..Len(repos) :
                 LET coll == IssuesOf(up, RepoKey(repos[r]))
                     rs == ReqsAt("issues", r, 0)
                 IN  /\ StopsAtFirstShortPage(rs, coll)
                     /\ Len(rs) = (Len(coll) \div PER_PAGE) + 1
                     /\ Len(snap.repo_issues[r].issues) = Len(coll)
                     /\ (Len(coll) = 237 => Len(rs) = 3)
                     /\ (Len(coll) < PER_PAGE => Len(rs) = 1)
            /\ \A p \in 1..Len(projects) :
                 \A c \in 1..Len(snap.project_issues[p].columns) :
                    LET column == snap.project_issues[p].columns[c]
                        coll == CardsOf(up, column.id)
                        rs == ReqsAt("cards", p, c)
                    IN  /\ StopsAtFirstShortPage(rs, coll)
                        /\ Len(rs) = (Len(coll) \div PER_PAGE) + 1
                        /\ Len(column.cards) = Len(coll)

\* C1 witness: a snapshot was built over a repository of 237 issues (pages
\* of 100, 100, 37) and a column of exactly 100 cards (second page empty).
C1_Witness ==
    /\ Done("get_snapshot") /\ result.ok
    /\ \E r \in 1..Len(repos) :
          /\ Len(result.value[1].repo_issues[r].issues) = 237
          /\ Len(ReqsAt("issues", r, 0)) = 3
    /\ \E p \in 1..Len(projects) :
          /\ result.value[1].project_issues[p].columns # <<>>
          /\ Len(result.value[1].project_issues[p].columns[1].cards) = PER_PAGE
          /\ Len(ReqsAt("cards", p, 1)) = 2

----------------------------------------------------------------------------
\* C2: after get_projects_id succeeds, every project's id is the id of the
\* board that has the project's number in the board list of the project's
\* own (owner, repo).
C2_IdOfOwnRepository ==
    (Done("get_projects_id") /\ result.ok) =>
        \A k \in 1..Len(projects) :
            LET boards == BoardsOf(up, RepoKey(projects[k]))
            IN  \E n \in 1..Len(boards) :
                    /\ boards[n].number = projects[k].number
                    /\ projects[k].id = Some(boards[n].id)

----------------------------------------------------------------------------
\* C3: get_projects_id returns "project not found" only for a project whose
\* number is on no page of its repository's board list, and only after it
\* asked for every page up to and including the first one shorter than 100
\* (never after a full page); and when no request fails and some unresolved
\* project's number is on no page, "project not found" is what it returns.
C3_NotFoundAfterExhausting ==
    Done("get_projects_id") =>
        /\ result.err = "project not found" =>
              /\ reqs # <<>>
              /\ LET last == reqs[Len(reqs)]
                     i == last.at[1]
                     boards == BoardsOf(up, last.key)
                 IN  /\ last.key = RepoKey(pre.projects[i])
                     /\ \A n \in 1..Len(boards) :
                            boards[n].number # pre.projects[i].number
                     /\ StopsAtFirstShortPage(ReqsAt("boards", i, 0), boards)
        /\ ( /\ AllReqsOk
             /\ \E i \in 1..Len(pre.projects) :
                   /\ pre.projects[i].id = None
                   /\ RepoKey(pre.projects[i]) \in KnownRepos
                   /\ \A n \in 1..Len(BoardsOf(up, RepoKey(pre.projects[i]))) :
                         BoardsOf(up, RepoKey(pre.projects[i]))[n].number
                             # pre.projects[i].number )
           => (~result.ok /\ result.err = "project not found")

\* C3 witness: "project not found" was returned after a full first page
\* without a match and a second, short page.
C3_Witness ==
    /\ Done("get_projects_id")
    /\ result.err = "project not found"
    /\ Len(reqs) = 2
    /\ reqs[1].at = reqs[2].at
    /\ Len(PageOf(BoardsOf(up, reqs[1].key), 1)) = PER_PAGE


----------------------------------------------------------------------------
SameReference(p, q) == p.owner = q.owner /\ p.repo = q.repo /\ p.number = q.number

Pages(rs) == [k \in 1..Len(rs) |-> rs[k].page]

\* C4 (as stated): when two unresolved projects of one get_projects_id call
\* share owner, repo and number, no request is issued for the second one.
C4_RepeatedReferenceNotScanned ==
    (Done("get_projects_id") /\ result.ok) =>
        \A i, j \in 1..Len(pre.projects) :
            ( /\ i < j
              /\ pre.projects[i].id = None
              /\ pre.projects[j].id = None
              /\ SameReference(pre.projects[i], pre.projects[j]) )
            => ReqsAt("boards", j, 0) = <<>>

\* C4 (amended): every unresolved project of a successful get_projects_id
\* call is scanned on its own, from page 1 of its repository's board list;
\* a project that repeats an earlier one's owner, repo and number causes
\* the same pages to be requested again and ends with the same id.
C4_EveryUnresolvedScanned ==
    (Done("get_projects_id") /\ result.ok) =>
        \A j \in 1..Len(pre.projects) :
            pre.projects[j].id = None =>
                /\ ReqsAt("boards", j, 0) # <<>>
                /\ ReqsAt("boards", j, 0)[1].page = 1
                /\ \A k \in 1..Len(ReqsAt("boards", j, 0)) :
                       ReqsAt("boards", j, 0)[k].key = RepoKey(pre.projects[j])
                /\ \A i \in 1..(j - 1) :
                       ( pre.projects[i].id = None
                         /\ SameReference(pre.projects[i], pre.projects[j]) )
                       => /\ Pages(ReqsAt("boards", j, 0)) = Pages(ReqsAt("boards", i, 0))
                          /\ projects[j].id = projects[i].id

\* C4 witness: two unresolved projects with the same owner, repo and number
\* were resolved by one call that issued a request for each.
C4_Witness ==
    /\ Done("get_projects_id") /\ result.ok
    /\ Len(pre.projects) = 2
    /\ pre.projects[1] = pre.projects[2]
    /\ pre.projects[1].id = None
    /\ Len(ReqsAt("boards", 1, 0)) = 1
    /\ Len(ReqsAt("boards", 2, 0)) = 1

----------------------------------------------------------------------------
\* C5: get_projects_id is all-or-nothing: when it returns an error every
\* project id is as it was before the call, and when it returns Ok every
\* project has its id set (and ids that were set before are kept).
C5_AllOrNothing ==
    Done("get_projects_id") =>
        /\ ~result.ok => projects = pre.projects
        /\ result.ok =>
              /\ StripIds(projects) = StripIds(pre.projects)
              /\ \A k \in 1..Len(projects) :
                    /\ projects[k].id # None
                    /\ pre.projects[k].id # None => projects[k].id = pre.projects[k].id

\* C5 witness: the call failed on its second project after the scan of the
\* first one had found its board, and no id was set.
C5_Witness ==
    /\ Done("get_projects_id") /\ ~result.ok
    /\ Len(projects) = 2
    /\ ReqsAt("boards", 1, 0) # <<>>
    /\ ReqsAt("boards", 2, 0) # <<>>
    /\ \A k \in 1..Len(ReqsAt("boards", 1, 0)) : ReqsAt("boards", 1, 0)[k].ok
    /\ projects[1].id = None

----------------------------------------------------------------------------
\* C6: from construction on, the retained projects are exactly the parsed
\* project references, in input order, whose (owner, repo) is that of no
\* configured repository; so no retained project shares (owner, repo) with
\* a configured repository, and no operation adds or removes a project.
C6_RetainedProjects ==
    pc \notin {"start", "panic"} =>
        LET parsed == MapProjects(conf.projects)
            Kept(p) == \A k \in 1..Len(conf.repos) :
                           RepoFrom(conf.repos[k]) # [owner |-> p.owner, repo |-> p.repo]
        IN  /\ repos = MapRepos(conf.repos)
            /\ StripIds(projects) = SelectSeq(parsed, Kept)
            /\ \A n \in 1..Len(projects) : \A k \in 1..Len(repos) :
                   RepoKey(projects[n]) # RepoKey(repos[k])

\* C6 witness: a client was constructed that dropped a project of a
\* configured repository and kept another one.
C6_Witness ==
    /\ pc = "idle"
    /\ Len(conf.projects) = 2
    /\ Len(projects) = 1
    /\ projects[1].owner = conf.projects[2].owner
    /\ \E k \in 1..Len(repos) : RepoKey(repos[k]) = <<conf.projects[1].owner, conf.projects[1].repo>>

----------------------------------------------------------------------------
IsSnapshotReq(r) == r.kind \in {"issues", "columns", "cards"}

\* C7: get_snapshot is fail-fast and all-or-nothing: a failed request is
\* the last request of the call (nothing is fetched after it and it is not
\* repeated), the call has returned that error, and it returned no
\* Snapshot; a call that returned a Snapshot had no failed request.
C7_FailFast ==
    /\ \A k \in 1..Len(reqs) :
          (IsSnapshotReq(reqs[k]) /\ ~reqs[k].ok) =>
              /\ k = Len(reqs)
              /\ Done("get_snapshot")
              /\ ~result.ok
              /\ result.err = "request failed"
              /\ result.value = None
    /\ Done("get_snapshot") => (result.ok <=> result.value # None)

\* C7 witness: the second issue page of the first of two repositories
\* failed; the call returned the error with nothing else requested.
C7_Witness ==
    /\ Done("get_snapshot") /\ ~result.ok
    /\ Len(repos) = 2
    /\ Len(projects) = 1
    /\ Len(reqs) = 2
    /\ reqs[1].ok /\ ~reqs[2].ok
    /\ reqs[2].at = <<1, 0>>

----------------------------------------------------------------------------
\* C8 (as stated): get_snapshot called on a client whose projects are
\* unresolved does not fail with the missing-project-id error when the
\* boards exist upstream.
C8_SnapshotResolvesIds ==
    ( /\ Done("get_snapshot")
      /\ \A k \in 1..Len(projects) :
            /\ RepoKey(projects[k]) \in KnownRepos
            /\ \E n \in 1..Len(BoardsOf(up, RepoKey(projects[k]))) :
                  BoardsOf(up, RepoKey(projects[k]))[n].number = projects[k].number )
    => result.err # "project id is none"

\* C8 (amended): get_snapshot does the board drill-down only and never the
\* resolution: it issues no board-list request and leaves every project id
\* as it found it.  With a retained project whose id is unset it fails with
\* the missing-project-id error unless a request failed before; with every
\* id set (get_projects_id succeeded before, as in main) it never fails
\* with that error.
C8_SnapshotNeverResolves ==
    (pc \in {"issues", "columns", "cards"} \/ Done("get_snapshot")) =>
        /\ projects = pre.projects
        /\ \A k \in 1..Len(reqs) : reqs[k].kind # "boards"
        /\ Done("get_snapshot") =>
              /\ (AllReqsOk /\ \E k \in 1..Len(projects) : projects[k].id = None)
                    => result.err = "project id is none"
              /\ (\A k \in 1..Len(projects) : projects[k].id # None)
                    => result.err # "project id is none"

\* C8 witness: get_snapshot, called before any resolution on a client with
\* projects whose boards exist, fetched the repository's issues and then
\* failed with the missing-project-id error.
C8_Witness ==
    /\ Done("get_snapshot")
    /\ result.err = "project id is none"
    /\ calls = 1
    /\ Len(repos) = 1 /\ Len(reqs) = 1
    /\ Len(projects) = 2
    /\ \A k \in 1..Len(projects) :
          /\ RepoKey(projects[k]) \in KnownRepos
          /\ up.boards[RepoKey(projects[k])] >= projects[k].number

----------------------------------------------------------------------------
\* C9: get_columns on a project whose id is unset fails with the
\* missing-project-id error without any request (no column or card request
\* is ever made for such a project, and the call ends there); on a project
\* whose id is set it requests the columns of that id and never returns
\* that error.
C9_ColumnsNeedId ==
    /\ \A k \in 1..Len(reqs) :
          reqs[k].kind \in {"columns", "cards"} => projects[reqs[k].at[1]].id # None
    /\ \A k \in 1..Len(reqs) :
          reqs[k].kind = "columns" => reqs[k].key = projects[reqs[k].at[1]].id
    /\ pc \in {"columns", "cards"} => projects[frame.i].id # None
    /\ Done("get_snapshot") =>
          /\ result.err = "project id is none" =>
                /\ \E k \in 1..Len(projects) : projects[k].id = None
                /\ \A k \in 1..Len(reqs) : reqs[k].ok
          /\ (AllReqsOk /\ \E k \in 1..Len(projects) : projects[k].id = None)
                => (~result.ok /\ result.err = "project id is none")
          /\ (\A k \in 1..Len(projects) : projects[k].id # None)
                => result.err # "project id is none"

\* C9 witness: a snapshot call on a client without repositories reached
\* get_columns with an unset id and returned the error with no request.
C9_Witness ==
    /\ Done("get_snapshot")
    /\ result.err = "project id is none"
    /\ repos = <<>>
    /\ projects # <<>>
    /\ projects[1].id = None
    /\ reqs = <<>>

----------------------------------------------------------------------------
\* C10: the time of a snapshot is the clock value at the start of the
\* get_snapshot call that produced it.
C10_TimeIsCallStart ==
    (Done("get_snapshot") /\ result.ok) => result.value[1].time = pre.clock


----------------------------------------------------------------------------
\* C11: two successive get_snapshot calls on one client, both successful,
\* with the platform unchanged, return the same repo_issues and the same
\* project_issues and issue the same sequence of requests.
C11_SnapshotRepeatable ==
    ( /\ Done("get_snapshot") /\ result.ok
      /\ pre.last.op = "get_snapshot" /\ pre.last.ok )
    => /\ result.value[1].repo_issues = pre.last.value[1].repo_issues
       /\ result.value[1].project_issues = pre.last.value[1].project_issues
       /\ reqs = pre.lastReqs

\* C11 witness: a second snapshot in a row was built on a client with a
\* repository that has issues and a resolved project that has cards.
C11_Witness ==
    /\ Done("get_snapshot") /\ result.ok
    /\ pre.last.op = "get_snapshot" /\ pre.last.ok
    /\ result.value[1].repo_issues # <<>>
    /\ result.value[1].repo_issues[1].issues # <<>>
    /\ result.value[1].project_issues # <<>>
    /\ result.value[1].project_issues[1].columns # <<>>
    /\ result.value[1].project_issues[1].columns[1].cards # <<>>

----------------------------------------------------------------------------
\* C12: with no repository and no project configured, get_snapshot returns
\* a Snapshot with empty repo_issues and empty project_issues and
\* get_projects_id returns Ok, both without any request (no call is ever
\* waiting for a response).
C12_EmptyConfiguration ==
    (conf.repos = <<>> /\ conf.projects = <<>>) =>
        /\ pc \in {"start", "idle"}
        /\ reqs = <<>>
        /\ Done("get_snapshot") =>
              /\ result.ok
              /\ result.value[1].repo_issues = <<>>
              /\ result.value[1].project_issues = <<>>
        /\ Done("get_projects_id") => result.ok

\* C12 witness: on the empty configuration get_projects_id and then
\* get_snapshot have returned.
C12_Witness ==
    /\ conf.repos = <<>> /\ conf.projects = <<>>
    /\ Done("get_snapshot") /\ result.ok
    /\ pre.last.op = "get_projects_id" /\ pre.last.ok


----------------------------------------------------------------------------
(* Repository strings on their own: GitHub::new on one repository string   *)
(* of at most MaxLen characters.                                            *)

MaxLen == 4

Chars == {"a", "x", "/"}

RepoStrings == UNION {[1..n -> Chars] : n \in 0..MaxLen}

ParseInit ==
    /\ conf \in {[repos |-> <<raw>>, projects |-> <<>>] : raw \in RepoStrings}
    /\ up = Platform(0, 0, 0, 0, 0)
    /\ clock = 0
    /\ pc = "start"
    /\ repos = <<>>
    /\ projects = <<>>
    /\ time = 0
    /\ calls = 0
    /\ frame = EmptyFrame
    /\ reqs = <<>>
    /\ pre = [projects |-> <<>>, clock |-> 0, last |-> NoResult, lastReqs |-> <<>>]
    /\ result = NoResult

ParseNext == New

ParseSpec == ParseInit /\ [][ParseNext]_vars

\* A string with exactly one "/" that is neither its first nor its last
\* character: two non-empty segments.
TwoNonEmptySegments(raw) ==
    /\ Cardinality({k \in 1..Len(raw) : raw[k] = "/"}) = 1
    /\ raw[1] # "/"
    /\ raw[Len(raw)] # "/"

\* C13: a repository string is accepted, as {owner, name}, exactly when it
\* splits on "/" into two non-empty segments; every other string is
\* refused (no Repo is built from it).
C13_MalformedRefused ==
    pc # "start" =>
        LET raw == conf.repos[1]
        IN  IF TwoNonEmptySegments(raw)
            THEN /\ pc = "idle"
                 /\ \E k \in 1..Len(raw) :
                       /\ raw[k] = "/"
                       /\ repos = <<[owner |-> SubSeq(raw, 1, k - 1),
                                     repo |-> SubSeq(raw, k + 1, Len(raw))]>>
            ELSE pc # "idle"


----------------------------------------------------------------------------
HasNumber(ps, number) == \E n \in 1..Len(ps) : ps[n].number = number

\* C14: in the scan for one project, a received page that holds a board
\* with the project's number ends the scan: it is the last page requested
\* for that project, full (100 entries) or not, and when it is the last
\* request of the call the call has not returned "project not found", also
\* when that page is a short final page.
C14_ScanStopsAtMatch ==
    /\ \A i \in 1..Len(projects) :
          LET rs == ReqsAt("boards", i, 0)
          IN  \A k \in 1..Len(rs) :
                 ( /\ rs[k].ok
                   /\ HasNumber(PageOf(BoardsOf(up, rs[k].key), rs[k].page),
                                projects[i].number) )
                 => k = Len(rs)
    /\ ( /\ Done("get_projects_id")
         /\ reqs # <<>>
         /\ reqs[Len(reqs)].ok
         /\ HasNumber(PageOf(BoardsOf(up, reqs[Len(reqs)].key), reqs[Len(reqs)].page),
                      projects[reqs[Len(reqs)].at[1]].number) )
       => result.ok

\* C14 witness: one call resolved a project found on a short second page
\* and a project found on a full first page, the latter with one request.
C14_Witness ==
    /\ Done("get_projects_id") /\ result.ok
    /\ Len(projects) = 2
    /\ Len(ReqsAt("boards", 1, 0)) = 2
    /\ Len(PageOf(BoardsOf(up, reqs[1].key), 2)) < PER_PAGE
    /\ Len(ReqsAt("boards", 2, 0)) = 1
    /\ Len(PageOf(BoardsOf(up, reqs[1].key), 1)) = PER_PAGE
    /\ projects[1].id # projects[2].id


----------------------------------------------------------------------------
\* C15: a project id is write-once and resolved lazily: no step changes or
\* clears an id that is set, and a get_projects_id call on a client whose
\* ids are all set (as after a successful call) returns Ok with no request
\* and every id unchanged.
C15_IdWriteOnce ==
    /\ [][ pc # "start" =>
              \A k \in 1..Len(projects) :
                  projects[k].id # None => projects'[k].id = projects[k].id ]_vars
    /\ []( ( /\ Done("get_projects_id")
             /\ \A k \in 1..Len(pre.projects) : pre.projects[k].id # None )
           => (reqs = <<>> /\ result.ok /\ projects = pre.projects) )

\* C15 witness: a second get_projects_id call in a row, after a successful
\* one that resolved two projects, has returned without a request.
C15_Witness ==
    /\ Done("get_projects_id") /\ result.ok
    /\ pre.last.op = "get_projects_id" /\ pre.last.ok
    /\ pre.lastReqs # <<>>
    /\ Len(projects) = 2
    /\ reqs = <<>>


----------------------------------------------------------------------------
\* Pages 1..k of a list, one after the other.
RECURSIVE ConcatPages(_, _)
ConcatPages(coll, k) ==
    IF k = 0 THEN <<>> ELSE ConcatPages(coll, k - 1) \o PageOf(coll, k)

Numbers(issues) == [k \in 1..Len(issues) |-> issues[k].number]

\* The requests rs of one fetch ask for pages 1, 2, .., Len(rs), and each
\* but the last has come back decoded.
InPageOrder(rs) ==
    /\ \A k \in 1..Len(rs) : rs[k].page = k
    /\ \A k \in 1..(Len(rs) - 1) : rs[k].ok

\* Request k of the log is page 1 of a fetch that has made no request
\* before, or the page after the one of request k-1, of the same fetch,
\* which has come back decoded.
NextPageOfFetch(k) ==
    LET r == reqs[k]
        SameFetch(m) == reqs[m].kind = r.kind /\ reqs[m].at = r.at
    IN  IF k > 1 /\ SameFetch(k - 1)
        THEN r.page = reqs[k - 1].page + 1 /\ reqs[k - 1].ok
        ELSE r.page = 1 /\ \A m \in 1..(k - 1) : ~SameFetch(m)

\* C16: within one paginated fetch the pages requested are 1, 2, .., k
\* without gap or repeat, a page is requested only when the one before it
\* has come back decoded, and the list built so far, as well as the list
\* returned, is the pages received so far one after the other in page order.
C16_PagesInOrder ==
    /\ \A i \in 1..Len(repos) : InPageOrder(ReqsAt("issues", i, 0))
    /\ \A k \in 1..Len(reqs) : reqs[k].kind = "cards" => NextPageOfFetch(k)
    /\ pc = "issues" =>
          /\ Len(ReqsAt("issues", frame.i, 0)) = frame.page
          /\ Numbers(frame.all)
               = Numbers(ConcatPages(IssuesOf(up, RepoKey(repos[frame.i])), frame.page))
    /\ pc = "cards" =>
          /\ Len(ReqsAt("cards", frame.i, frame.j)) = frame.page
          /\ frame.all = ConcatPages(CardsOf(up, frame.columns[frame.j].id), frame.page)
    /\ (Done("get_snapshot") /\ result.ok) =>
          /\ \A i \in 1..Len(repos) :
                Numbers(result.value[1].repo_issues[i].issues)
                  = Numbers(ConcatPages(IssuesOf(up, RepoKey(repos[i])),
                                        Len(ReqsAt("issues", i, 0))))
          /\ \A i \in 1..Len(projects) :
                \A j \in 1..Len(result.value[1].project_issues[i].columns) :
                   LET column == result.value[1].project_issues[i].columns[j]
                   IN  column.cards
                         = ConcatPages(CardsOf(up, column.id), Len(ReqsAt("cards", i, j)))

\* C16 witness: the fetch of a repository's issues has received two full
\* pages and is about to ask for the third.
C16_Witness ==
    /\ pc = "issues"
    /\ frame.page = 2
    /\ Len(frame.all) = 2 * PER_PAGE
    /\ frame.all[1].number = 1
    /\ frame.all[2 * PER_PAGE].number = 2 * PER_PAGE

----------------------------------------------------------------------------
\* The columns the one column request of a board returns: its first page.
ColumnsSeen(pid) == PageOf(ColumnsOf(up, pid), 1)

\* Request k of the log is a card request of project i, whose column
\* request returned the list `seen`, and it follows the walk of
\* get_columns: it is the first page of the first column right after the
\* column request, or the next page of the fetch in progress after a full
\* page, or the first page of the next column after a short page; and it
\* addresses the column at its position in the list returned.
CardRequestInWalk(k, i, seen) ==
    LET r == reqs[k]
        p == reqs[k - 1]
        j == r.at[2]
        got == Len(PageOf(CardsOf(up, p.key), p.page))
    IN  /\ k > 1
        /\ p.ok
        /\ j \in 1..Len(seen)
        /\ r.key = seen[j].id
        /\ \/ p.kind = "columns" /\ p.at = <<i, 0>> /\ j = 1 /\ r.page = 1
           \/ p.kind = "cards" /\ p.at = <<i, j>> /\ r.page = p.page + 1 /\ got = PER_PAGE
           \/ p.kind = "cards" /\ p.at = <<i, j - 1>> /\ r.page = 1 /\ got < PER_PAGE

\* C17: the drill-down of a project makes at most one column request, with
\* no page parameter, and exactly one when it completes (also when 100
\* columns come back); the card requests follow the columns in list order,
\* one complete paginated fetch after the other; and each column of the
\* result has the id at its position in the list returned and carries the
\* cards of its own id.
C17_ColumnsThenCardsInOrder ==
    /\ \A i \in 1..Len(projects) :
          LET rs == ReqsAt("columns", i, 0)
          IN  Len(rs) <= 1 /\ (rs # <<>> => rs[1].page = 0 /\ rs[1].key = projects[i].id)
    /\ \A k \in 1..Len(reqs) :
          reqs[k].kind = "cards" =>
              reqs[k].at[1] \in 1..Len(projects) /\ HasId(projects[reqs[k].at[1]])
    /\ \A i \in 1..Len(projects) :
          HasId(projects[i]) =>
              LET seen == ColumnsSeen(projects[i].id[1])
              IN  \A k \in 1..Len(reqs) :
                     (reqs[k].kind = "cards" /\ reqs[k].at[1] = i)
                         => CardRequestInWalk(k, i, seen)
    /\ (Done("get_snapshot") /\ result.ok) =>
          \A i \in 1..Len(projects) :
             LET columns == result.value[1].project_issues[i].columns
                 seen == ColumnsSeen(projects[i].id[1])
             IN  /\ Len(ReqsAt("columns", i, 0)) = 1
                 /\ Len(columns) = Len(seen)
                 /\ \A j \in 1..Len(columns) :
                       /\ columns[j].id = seen[j].id
                       /\ columns[j].cards = CardsOf(up, columns[j].id)
                       /\ ReqsAt("cards", i, j) # <<>>

\* C17 witness: a snapshot was built over a board of exactly 100 columns,
\* with one column request and 100 card fetches, the eleventh column
\* holding a card.
C17_Witness ==
    /\ Done("get_snapshot") /\ result.ok
    /\ Len(projects) = 1
    /\ Len(result.value[1].project_issues[1].columns) = PER_PAGE
    /\ Len(ReqsAt("columns", 1, 0)) = 1
    /\ Len(reqs) = PER_PAGE + 1
    /\ result.value[1].project_issues[1].columns[11].cards = <<Card>>
    /\ result.value[1].project_issues[1].columns[12].cards = <<>>

----------------------------------------------------------------------------
\* A RepoIssues value ri built for repository r: it refers to r, every
\* issue carries r's owner and name, and the issues are the items of the
\* repository's upstream list, one for one and in order, pull requests
\* included.
BackFilledUnfiltered(ri, r) ==
    LET coll == IssuesOf(up, RepoKey(r))
    IN  /\ ri.repo = r
        /\ Len(ri.issues) = Len(coll)
        /\ \A k \in 1..Len(ri.issues) :
              /\ ri.issues[k].owner = r.owner
              /\ ri.issues[k].repo = r.repo
              /\ ri.issues[k].number = coll[k].number
              /\ ri.issues[k].pull_request = coll[k].pull_request

\* C18: get_opened_issues_by_repo back-fills and does not filter: every
\* RepoIssues value it has returned, in a snapshot under construction or in
\* a snapshot returned, holds all the items retrieved for its repository
\* (pull requests included), each with the repository's owner and name.
C18_BackFilledNotFiltered ==
    /\ \A k \in 1..Len(frame.repo_issues) :
          BackFilledUnfiltered(frame.repo_issues[k], repos[k])
    /\ (Done("get_snapshot") /\ result.ok) =>
          \A k \in 1..Len(result.value[1].repo_issues) :
             BackFilledUnfiltered(result.value[1].repo_issues[k], repos[k])

\* C18 witness: a snapshot holds the 237 items of repository a/x, fetched
\* over three pages; item 236 is a pull request and carries owner a, repo x.
C18_Witness ==
    /\ Done("get_snapshot") /\ result.ok
    /\ \E k \in 1..Len(repos) :
          LET issues == result.value[1].repo_issues[k].issues
          IN  /\ repos[k] = [owner |-> NameA, repo |-> NameX]
              /\ Len(issues) = 237
              /\ issues[236].pull_request
              /\ issues[236].owner = NameA
              /\ issues[236].repo = NameX

----------------------------------------------------------------------------
\* Request k of the log keeps the order of the configuration: a repository
\* request follows only repository requests, of the same or an earlier
\* repository; a project request (columns, cards) follows repository
\* requests or requests of the same or an earlier project.
RequestInConfigOrder(k) ==
    LET r == reqs[k]
        p == reqs[k - 1]
    IN  k > 1 =>
          IF r.kind = "issues"
          THEN p.kind = "issues" /\ p.at[1] <= r.at[1]
          ELSE p.kind = "issues" \/ p.at[1] <= r.at[1]

\* C19: a snapshot returned Ok has one RepoIssues entry per configured
\* repository and one ProjectIssues entry per retained project, entry i
\* referring to the i-th repository / retained project of the
\* configuration, and in every call all repository requests come before
\* the first project request.
C19_ConfigurationOrder ==
    /\ \A k \in 1..Len(reqs) :
          reqs[k].kind \in {"issues", "columns", "cards"} => RequestInConfigOrder(k)
    /\ (Done("get_snapshot") /\ result.ok) =>
          LET snap == result.value[1]
              retained == FilterProjects(MapProjects(conf.projects), MapRepos(conf.repos))
          IN  /\ Len(snap.repo_issues) = Len(conf.repos)
              /\ \A i \in 1..Len(conf.repos) :
                    /\ snap.repo_issues[i].repo = RepoFrom(conf.repos[i])
                    /\ ReqsAt("issues", i, 0) # <<>>
                    /\ ReqsAt("issues", i, 0)[1].key = RepoKey(RepoFrom(conf.repos[i]))
              /\ Len(snap.project_issues) = Len(retained)
              /\ \A i \in 1..Len(retained) :
                    /\ StripIds(<<snap.project_issues[i].project>>) = StripIds(<<retained[i]>>)
                    /\ snap.project_issues[i].project = projects[i]
                    /\ ReqsAt("columns", i, 0) # <<>>
                    /\ ReqsAt("columns", i, 0)[1].key = projects[i].id

\* C19 witness: a snapshot was built for two repositories (a/x with 237
\* issues first, then b/y) and one project, with the requests of a/x, then
\* of b/y, then of the project.
C19_Witness ==
    /\ Done("get_snapshot") /\ result.ok
    /\ Len(result.value[1].repo_issues) = 2
    /\ result.value[1].repo_issues[1].repo = [owner |-> NameA, repo |-> NameX]
    /\ result.value[1].repo_issues[2].repo = [owner |-> NameB, repo |-> NameY]
    /\ Len(result.value[1].repo_issues[1].issues) = 237
    /\ Len(result.value[1].project_issues) = 1
    /\ reqs[1].kind = "issues" /\ reqs[1].at = <<1, 0>>
    /\ reqs[4].kind = "issues" /\ reqs[4].at = <<2, 0>>
    /\ reqs[5].kind = "columns" /\ reqs[5].at = <<1, 0>>

----------------------------------------------------------------------------
\* A call is in flight, waiting for the response of a request.
InFlight == pc \in {"boards", "issues", "columns", "cards"}

\* C20: when every request returns, get_projects_id and get_snapshot
\* return (Ok or error): a call in flight leads to the client being idle
\* again with the call's result, and no loop runs into the page bound.
C20_CallsReturn ==
    /\ [](InFlight => frame.page < MaxPage)
    /\ InFlight ~> (pc = "idle" /\ result.op \in {"get_projects_id", "get_snapshot"})

\* C20 witness: get_projects_id has resolved one project and is scanning
\* the boards of the next, one full page of 100 boards behind it without a
\* match.
C20_Witness ==
    /\ pc = "boards"
    /\ frame.i = 2
    /\ frame.page = 1
    /\ Len(reqs) = 2
    /\ reqs[2].ok
    /\ Len(BoardsOf(up, RepoKey(projects[2]))) > PER_PAGE

====
